---- MODULE Spec2Model ----
(***************************************************************************)
(* Background jobs of the blog application (blog/tasks.py):                *)
(*   send_post_notification, generate_post_stats, cleanup_old_drafts,      *)
(* run by workers against the post store (Post / Comment rows), the mail   *)
(* sink (django.core.mail.send_mail) and the clock (timezone.now()).       *)
(* Every database query and every send_mail call of a job is one step, so  *)
(* that other workers and API requests can interleave between them.        *)
(* Time is counted in days.                                                *)
(***************************************************************************)
EXTENDS Integers, Sequences, FiniteSets, TLC

\* ---------------------------------------------------------------- bounds
MaxPosts == 2
MaxNow == 1
MaxComments == 2
MaxLen == 2
MaxDeliveries == 2
NumWorkers == 2
MaxTags == 1

\* ------------------------------------------------------ program constants
RetentionDays == 30
NewPostPrefix == "New post: "
FromEmail == "noreply@blog.com"
PostNotFound == "post not found"

\* ------------------------------------------------------------ input sets
Titles == {"Hello", "My Amazing Post"}
Emails == {"a@x.com", "b@x.com"}
AgeDays == {29, 31, 60}
Workers == 1..NumWorkers
PostIds == 1..MaxPosts
\* ids a job can be called with: every id the store can hold and one it never holds
ArgIds == 1..(MaxPosts + 1)
RecipientLists == UNION {[1..n -> Emails] : n \in 0..MaxLen}
TagNames == {"python", "django"}

VARIABLES
  posts,      \* Post table: id -> [title, published, created_at]
  nextId,     \* next primary key of the Post table
  comments,   \* Comment table: id -> id of the owning post
  now,        \* timezone.now(), in days
  outbox,     \* mail sink: every send_mail call made, in order, with its outcome
  cleanup,    \* cleanup_old_drafts invocation of each worker
  notif,      \* send_post_notification invocation of each worker
  stats,      \* generate_post_stats invocation of each worker
  tags,       \* Tag table: id -> name
  response,   \* the response to the last API request
  history     \* history variable: id -> the values the published flag of the post has had

vars == <<posts, nextId, comments, now, outbox, cleanup, notif, stats, tags, response, history>>

\* a worker slot that holds no result yet
NoResult == [pending |-> TRUE]

Restrict(f, S) == [x \in S |-> f[x]]

\* no API request has been answered yet
NoResponse == [status |-> 0]

\* ----------------------------------------------------------- post store
\* Post.objects.get(id=post_id) succeeds
PostExists(id) == id \in DOMAIN posts

\* on_delete cascade: comments of removed posts go with them
CascadeComments(remaining) ==
  Restrict(comments, {c \in DOMAIN comments : comments[c] \in remaining})

\* PostFactory(title=t, published=pub): created_at is set to now
CreatePost(t, pub) ==
  /\ nextId <= MaxPosts
  /\ posts' = posts @@ (nextId :> [title |-> t, published |-> pub, created_at |-> now])
  /\ nextId' = nextId + 1
  /\ UNCHANGED <<comments, now, outbox, cleanup, notif, stats, tags, response, history>>

\* a variant whose timestamp is refreshed on every save (auto_now)
SetPublished_AutoNow(p, pub) ==
  /\ PostExists(p)
  /\ posts[p].published # pub
  /\ posts' = [posts EXCEPT ![p].published = pub, ![p].created_at = now]
  /\ UNCHANGED <<nextId, comments, now, outbox, cleanup, notif, stats, tags, response, history>>

\* PATCH /api/posts/<id>/ {'published': pub}
SetPublished(p, pub) ==
  /\ PostExists(p)
  /\ posts[p].published # pub
  /\ posts' = [posts EXCEPT ![p].published = pub]
  /\ UNCHANGED <<nextId, comments, now, outbox, cleanup, notif, stats, tags, response, history>>

\* PUT /api/posts/<id>/ with a new title
Retitle(p, t) ==
  /\ PostExists(p)
  /\ posts[p].title # t
  /\ posts' = [posts EXCEPT ![p].title = t]
  /\ UNCHANGED <<nextId, comments, now, outbox, cleanup, notif, stats, tags, response, history>>

\* post.created_at = timezone.now() - timedelta(days=d); post.save()
AgePost(p, d) ==
  /\ PostExists(p)
  /\ posts[p].created_at # now - d
  /\ posts' = [posts EXCEPT ![p].created_at = now - d]
  /\ UNCHANGED <<nextId, comments, now, outbox, cleanup, notif, stats, tags, response, history>>

\* DELETE /api/posts/<id>/
ApiDelete(p) ==
  /\ PostExists(p)
  /\ posts' = Restrict(posts, DOMAIN posts \ {p})
  /\ comments' = CascadeComments(DOMAIN posts \ {p})
  /\ UNCHANGED <<nextId, now, outbox, cleanup, notif, stats, tags, response, history>>

\* CommentFactory(post=p)
AddComment(p) ==
  /\ PostExists(p)
  /\ Cardinality(DOMAIN comments) < MaxComments
  /\ LET c == CHOOSE k \in 1..MaxComments : k \notin DOMAIN comments
     IN comments' = comments @@ (c :> p)
  /\ UNCHANGED <<posts, nextId, now, outbox, cleanup, notif, stats, tags, response, history>>

\* a day passes
Tick ==
  /\ now < MaxNow
  /\ now' = now + 1
  /\ UNCHANGED <<posts, nextId, comments, outbox, cleanup, notif, stats, tags, response, history>>

\* ------------------------------------------------- cleanup_old_drafts
\* rerun tells that this run directly follows a finished run of the same worker
IdleCleanup ==
  [pc |-> "idle", cutoff |-> 0, count |-> 0, selection |-> {}, result |-> NoResult,
   rerun |-> FALSE]

OldDrafts_IgnorePublished(cutoff) ==
  {p \in DOMAIN posts : posts[p].created_at < cutoff}

OldDrafts_Inclusive(cutoff) ==
  {p \in DOMAIN posts : posts[p].published = FALSE /\ posts[p].created_at <= cutoff}

\* a variant that spares every post that has ever been published
OldDrafts_NeverPublished(cutoff) ==
  {p \in DOMAIN posts : /\ posts[p].published = FALSE
                        /\ posts[p].created_at < cutoff
                        /\ TRUE \notin history[p]}

\* Post.objects.filter(published=False, created_at__lt=cutoff)
OldDrafts(cutoff) ==
  {p \in DOMAIN posts : posts[p].published = FALSE /\ posts[p].created_at < cutoff}

\* cutoff = timezone.now() - timedelta(days=30); the queryset is built lazily
CleanupStart(w) ==
  /\ cleanup[w].pc = "idle"
  /\ cleanup' = [cleanup EXCEPT ![w] =
       [IdleCleanup EXCEPT !.pc = "count", !.cutoff = now - RetentionDays]]
  /\ UNCHANGED <<posts, nextId, comments, now, outbox, notif, stats, tags, response, history>>

\* count = old_drafts.count()
CleanupCount(w) ==
  /\ cleanup[w].pc = "count"
  /\ cleanup' = [cleanup EXCEPT ![w].pc = "collect",
                                ![w].count = Cardinality(OldDrafts(cleanup[w].cutoff))]
  /\ UNCHANGED <<posts, nextId, comments, now, outbox, notif, stats, tags, response, history>>

\* a variant that collects one row only
CleanupCollect_FirstOnly(w) ==
  /\ cleanup[w].pc = "collect"
  /\ LET old == OldDrafts(cleanup[w].cutoff)
     IN cleanup' = [cleanup EXCEPT ![w].pc = "delete",
                      ![w].selection = {p \in old : \A q \in old : p <= q}]
  /\ UNCHANGED <<posts, nextId, comments, now, outbox, notif, stats, tags, response, history>>

\* old_drafts.delete(), first half: the queryset is evaluated and its rows collected
CleanupCollect(w) ==
  /\ cleanup[w].pc = "collect"
  /\ cleanup' = [cleanup EXCEPT ![w].pc = "delete",
                                ![w].selection = OldDrafts(cleanup[w].cutoff)]
  /\ UNCHANGED <<posts, nextId, comments, now, outbox, notif, stats, tags, response, history>>

\* old_drafts.delete(), second half: the collected rows are deleted by primary key;
\* return {"deleted": count}
CleanupDelete(w) ==
  /\ cleanup[w].pc = "delete"
  /\ posts' = Restrict(posts, DOMAIN posts \ cleanup[w].selection)
  /\ comments' = CascadeComments(DOMAIN posts \ cleanup[w].selection)
  /\ cleanup' = [cleanup EXCEPT ![w].pc = "done",
                                ![w].result = [deleted |-> cleanup[w].count]]
  /\ UNCHANGED <<nextId, now, outbox, notif, stats, tags, response, history>>

\* the dispatcher takes the result; the worker is free again
CleanupReturn(w) ==
  /\ cleanup[w].pc = "done"
  /\ cleanup' = [cleanup EXCEPT ![w] = IdleCleanup]
  /\ UNCHANGED <<posts, nextId, comments, now, outbox, notif, stats, tags, response, history>>

\* cleanup_old_drafts is run again right after it has returned
CleanupRerun(w) ==
  /\ cleanup[w].pc = "done"
  /\ cleanup' = [cleanup EXCEPT ![w] =
       [IdleCleanup EXCEPT !.pc = "count", !.cutoff = now - RetentionDays,
                           !.rerun = TRUE]]
  /\ UNCHANGED <<posts, nextId, comments, now, outbox, notif, stats, tags, response, history>>

\* --------------------------------------------- send_post_notification
\* the local variable post before Post.objects.get has returned
NoPost == [none |-> TRUE]

\* pc, the arguments, the locals post, sent and the loop position i, the result;
\* delivery counts the dispatcher's deliveries of this job, found those of them
\* whose lookup found the post
IdleNotif ==
  [pc |-> "idle", post_id |-> 0, recipients |-> <<>>, post |-> NoPost, i |-> 1,
   sent |-> 0, result |-> NoResult, delivery |-> 0, found |-> 0]

\* f"New post: {post.title}"
Subject(title) == <<NewPostPrefix, title>>

\* f"Check out the new post: {post.title}"
Message(title) == <<"Check out the new post: ", title>>

\* send_mail(subject=..., message=..., from_email=..., recipient_list=[email]);
\* ok tells whether the sink accepted it, by and run which delivery made the call
MailCall(w, email, ok) ==
  [subject |-> Subject(notif[w].post.title),
   message |-> Message(notif[w].post.title),
   from_email |-> FromEmail,
   recipient_list |-> <<email>>,
   ok |-> ok, by |-> w, run |-> notif[w].delivery]

NotFoundResult_NoSent == [error |-> PostNotFound]

\* return {"sent": 0, "error": "post not found"}
NotFoundResult == [sent |-> 0, error |-> PostNotFound]

\* return {"sent": sent, "post_id": post_id}
SentResult(sent, post_id) == [sent |-> sent, post_id |-> post_id]

\* send_post_notification.delay(post_id=id, recipient_emails=rcpts)
NotifySubmit(w, id, rcpts) ==
  /\ notif[w].pc = "idle"
  /\ notif' = [notif EXCEPT ![w] =
       [IdleNotif EXCEPT !.pc = "lookup", !.post_id = id, !.recipients = rcpts,
                         !.delivery = 1]]
  /\ UNCHANGED <<posts, nextId, comments, now, outbox, cleanup, stats, tags, response, history>>

\* try: post = Post.objects.get(id=post_id) / except Post.DoesNotExist: return ...
NotifyLookup(w) ==
  /\ notif[w].pc = "lookup"
  /\ IF PostExists(notif[w].post_id)
     THEN notif' = [notif EXCEPT ![w].pc = "loop",
                                 ![w].post = posts[notif[w].post_id],
                                 ![w].found = @ + 1]
     ELSE notif' = [notif EXCEPT ![w].pc = "done", ![w].result = NotFoundResult]
  /\ UNCHANGED <<posts, nextId, comments, now, outbox, cleanup, stats, tags, response, history>>

\* a variant that skips an address the sink already accepted this subject for
NotifySend_Dedup(w) ==
  /\ notif[w].pc = "loop"
  /\ notif[w].i <= Len(notif[w].recipients)
  /\ LET call == MailCall(w, notif[w].recipients[notif[w].i], TRUE)
         dup == \E n \in 1..Len(outbox) :
                  /\ outbox[n].ok
                  /\ outbox[n].recipient_list = call.recipient_list
                  /\ outbox[n].subject = call.subject
     IN outbox' = IF dup THEN outbox ELSE Append(outbox, call)
  /\ notif' = [notif EXCEPT ![w].i = @ + 1, ![w].sent = @ + 1]
  /\ UNCHANGED <<posts, nextId, comments, now, cleanup, stats, tags, response, history>>

\* one iteration of the loop: send_mail accepts the message; sent += 1
NotifySend(w) ==
  /\ notif[w].pc = "loop"
  /\ notif[w].i <= Len(notif[w].recipients)
  /\ outbox' = Append(outbox, MailCall(w, notif[w].recipients[notif[w].i], TRUE))
  /\ notif' = [notif EXCEPT ![w].i = @ + 1, ![w].sent = @ + 1]
  /\ UNCHANGED <<posts, nextId, comments, now, cleanup, stats, tags, response, history>>

\* one iteration of the loop: send_mail raises a transport error, which nothing
\* in the task catches: the invocation ends without a result
NotifySendRaises(w) ==
  /\ notif[w].pc = "loop"
  /\ notif[w].i <= Len(notif[w].recipients)
  /\ outbox' = Append(outbox, MailCall(w, notif[w].recipients[notif[w].i], FALSE))
  /\ notif' = [notif EXCEPT ![w].pc = "raised"]
  /\ UNCHANGED <<posts, nextId, comments, now, cleanup, stats, tags, response, history>>

\* a variant whose counter is shared by all invocations
NotifyFinish_SharedCounter(w) ==
  /\ notif[w].pc = "loop"
  /\ notif[w].i > Len(notif[w].recipients)
  /\ notif' = [notif EXCEPT ![w].pc = "done",
                            ![w].result = SentResult(Len(SelectSeq(outbox, LAMBDA m : m.ok)),
                                                     notif[w].post_id)]
  /\ UNCHANGED <<posts, nextId, comments, now, outbox, cleanup, stats, tags, response, history>>

\* a variant that marks the post as published once it has been announced
NotifyFinish_MarksPost(w) ==
  /\ notif[w].pc = "loop"
  /\ notif[w].i > Len(notif[w].recipients)
  /\ notif' = [notif EXCEPT ![w].pc = "done",
                            ![w].result = SentResult(notif[w].sent, notif[w].post_id)]
  /\ posts' = IF PostExists(notif[w].post_id)
              THEN [posts EXCEPT ![notif[w].post_id].published = TRUE]
              ELSE posts
  /\ UNCHANGED <<nextId, comments, now, outbox, cleanup, stats, tags, response, history>>

\* the loop is over: return {"sent": sent, "post_id": post_id}
NotifyFinish(w) ==
  /\ notif[w].pc = "loop"
  /\ notif[w].i > Len(notif[w].recipients)
  /\ notif' = [notif EXCEPT ![w].pc = "done",
                            ![w].result = SentResult(notif[w].sent, notif[w].post_id)]
  /\ UNCHANGED <<posts, nextId, comments, now, outbox, cleanup, stats, tags, response, history>>

\* a variant that resumes after the last recipient the sink accepted
NotifyRedeliver_Resume(w) ==
  /\ notif[w].pc \in {"done", "raised"}
  /\ notif[w].delivery < MaxDeliveries
  /\ notif' = [notif EXCEPT ![w].pc = "lookup", ![w].post = NoPost,
                            ![w].result = NoResult, ![w].delivery = @ + 1]
  /\ UNCHANGED <<posts, nextId, comments, now, outbox, cleanup, stats, tags, response, history>>

\* at-least-once dispatch: the same job is delivered again
NotifyRedeliver(w) ==
  /\ notif[w].pc \in {"done", "raised"}
  /\ notif[w].delivery < MaxDeliveries
  /\ notif' = [notif EXCEPT ![w].pc = "lookup", ![w].post = NoPost, ![w].i = 1,
                            ![w].sent = 0, ![w].result = NoResult,
                            ![w].delivery = @ + 1]
  /\ UNCHANGED <<posts, nextId, comments, now, outbox, cleanup, stats, tags, response, history>>

\* the send_mail calls made by delivery k of worker w's job, in order
CallsOf(w, k) == SelectSeq(outbox, LAMBDA m : m.by = w /\ m.run = k)

\* ------------------------------------------------ generate_post_stats
\* pc, the argument, the local post, the result; prev keeps the result of the
\* previous delivery of the same job
IdleStats ==
  [pc |-> "idle", post_id |-> 0, post |-> NoPost, result |-> NoResult, prev |-> NoResult]

StatsNotFound_WithCount == [error |-> PostNotFound, comment_count |-> 0]

\* return {"error": "post not found"}
StatsNotFound == [error |-> PostNotFound]

CommentCount_AllPosts(id) == Cardinality(DOMAIN comments)

\* post.comments.count()
CommentCount(id) == Cardinality({c \in DOMAIN comments : comments[c] = id})

\* return {"post_id": post_id, "title": post.title, "comment_count": ...}
StatsResult(id, title, n) == [post_id |-> id, title |-> title, comment_count |-> n]

\* generate_post_stats.delay(post_id=id)
StatsSubmit(w, id) ==
  /\ stats[w].pc = "idle"
  /\ stats' = [stats EXCEPT ![w] = [IdleStats EXCEPT !.pc = "lookup", !.post_id = id]]
  /\ UNCHANGED <<posts, nextId, comments, now, outbox, cleanup, notif, tags, response, history>>

\* try: post = Post.objects.get(id=post_id) / except Post.DoesNotExist: return ...
StatsLookup(w) ==
  /\ stats[w].pc = "lookup"
  /\ IF PostExists(stats[w].post_id)
     THEN stats' = [stats EXCEPT ![w].pc = "count", ![w].post = posts[stats[w].post_id]]
     ELSE stats' = [stats EXCEPT ![w].pc = "done", ![w].result = StatsNotFound]
  /\ UNCHANGED <<posts, nextId, comments, now, outbox, cleanup, notif, tags, response, history>>

\* a variant that keeps a running total over the deliveries of the job
StatsCount_RunningTotal(w) ==
  /\ stats[w].pc = "count"
  /\ LET before == IF "comment_count" \in DOMAIN stats[w].prev
                   THEN stats[w].prev.comment_count ELSE 0
     IN stats' = [stats EXCEPT ![w].pc = "done",
                               ![w].result = StatsResult(stats[w].post_id, stats[w].post.title,
                                                before + CommentCount(stats[w].post_id))]
  /\ UNCHANGED <<posts, nextId, comments, now, outbox, cleanup, notif, tags, response, history>>

\* the comment count is queried and the result returned
StatsCount(w) ==
  /\ stats[w].pc = "count"
  /\ stats' = [stats EXCEPT ![w].pc = "done",
                            ![w].result = StatsResult(stats[w].post_id, stats[w].post.title,
                                                      CommentCount(stats[w].post_id))]
  /\ UNCHANGED <<posts, nextId, comments, now, outbox, cleanup, notif, tags, response, history>>

\* the dispatcher takes the result; the worker is free again
StatsReturn(w) ==
  /\ stats[w].pc = "done"
  /\ stats' = [stats EXCEPT ![w] = IdleStats]
  /\ UNCHANGED <<posts, nextId, comments, now, outbox, cleanup, notif, tags, response, history>>

\* the dispatcher delivers the same job again (a retry)
StatsRedeliver(w) ==
  /\ stats[w].pc = "done"
  /\ stats' = [stats EXCEPT ![w].pc = "lookup", ![w].post = NoPost,
                            ![w].prev = stats[w].result, ![w].result = NoResult]
  /\ UNCHANGED <<posts, nextId, comments, now, outbox, cleanup, notif, tags, response, history>>

\* ---------------------------------------------------------------- Init

Init ==
  /\ posts = <<>>
  /\ nextId = 1
  /\ comments = <<>>
  /\ now = 0
  /\ outbox = <<>>
  /\ cleanup = [w \in Workers |-> IdleCleanup]
  /\ notif = [w \in Workers |-> IdleNotif]
  /\ stats = [w \in Workers |-> IdleStats]
  /\ tags = <<>>
  /\ response = NoResponse
  /\ history = <<>>

\* no cleanup invocation is in progress
CleanupQuiet == \A w \in Workers : cleanup[w].pc = "idle"

\* -------------------------------------------- retention, one run at a time
\* cleanup_old_drafts never reads the title: one title is enough here
StoreCreate == \E pub \in BOOLEAN : CleanupQuiet /\ CreatePost("Hello", pub)
StorePublish == \E p \in PostIds, pub \in BOOLEAN : CleanupQuiet /\ SetPublished(p, pub)
StoreAge == \E p \in PostIds, d \in AgeDays : CleanupQuiet /\ AgePost(p, d)
StoreDelete == \E p \in PostIds : CleanupQuiet /\ ApiDelete(p)
StoreTick == CleanupQuiet /\ Tick
RunCleanupStart == CleanupQuiet /\ CleanupStart(1)
RunCleanupCount == CleanupCount(1)
RunCleanupCollect == CleanupCollect(1)
RunCleanupDelete == CleanupDelete(1)
RunCleanupReturn == CleanupReturn(1)
RunCleanupRerun == CleanupRerun(1)

NextRetention ==
  \/ StoreCreate
  \/ StorePublish
  \/ StoreAge
  \/ StoreDelete
  \/ StoreTick
  \/ RunCleanupStart
  \/ RunCleanupCount
  \/ RunCleanupCollect
  \/ RunCleanupDelete
  \/ RunCleanupReturn
  \/ RunCleanupRerun

SpecRetention == Init /\ [][NextRetention]_vars

\* a step in which worker w's cleanup_old_drafts performs its delete
DeleteStep(w) == cleanup[w].pc = "delete" /\ cleanup'[w].pc = "done"

\* C1: with cleanup runs executed one at a time, the delete of cleanup_old_drafts
\* never removes a post whose published flag is true, whatever its age.
C1_PublishedSurvivesCleanup ==
  [][\A w \in Workers : \A p \in DOMAIN posts :
       (DeleteStep(w) /\ posts[p].published) =>
          (p \in DOMAIN posts' /\ posts'[p] = posts[p])]_vars

\* a cleanup run has finished and a published post created 60 days ago is still there
C1_Witness ==
  /\ cleanup[1].pc = "done"
  /\ \E p \in DOMAIN posts : posts[p].published /\ posts[p].created_at <= now - 60

\* the posts a run started at time t has to remove, as the claim words it
Eligible(t) ==
  {p \in DOMAIN posts : ~posts[p].published /\ posts[p].created_at < t - 30}

\* C3: one cleanup run without concurrent writers removes exactly the unpublished
\* posts created strictly more than 30 days before the invocation, reports their
\* number as {deleted: n}, and leaves every other post as it was.
C3_ExactRetention ==
  [][\A w \in Workers :
       IF DeleteStep(w)
       THEN /\ posts' = Restrict(posts, DOMAIN posts \ Eligible(now))
            /\ cleanup'[w].result = [deleted |-> Cardinality(Eligible(now))]
       ELSE (cleanup[w].pc # "idle") => (posts' = posts)]_vars

\* a run reported one deletion and a 29-day-old draft is still in the store
C3_Witness ==
  /\ cleanup[1].pc = "done"
  /\ cleanup[1].result = [deleted |-> 1]
  /\ \E p \in DOMAIN posts : ~posts[p].published /\ posts[p].created_at = now - 29

\* ------------------------------ retention racing with the API and the clock
RaceCreate == \E pub \in BOOLEAN : CreatePost("Hello", pub)
RacePublish == \E p \in PostIds, pub \in BOOLEAN : SetPublished(p, pub)
RaceAge == \E p \in PostIds, d \in AgeDays : AgePost(p, d)
RaceDelete == \E p \in PostIds : ApiDelete(p)
RaceCleanupStart == CleanupStart(1)
RaceCleanupCount == CleanupCount(1)
RaceCleanupCollect == CleanupCollect(1)
RaceCleanupDelete == CleanupDelete(1)
RaceCleanupReturn == CleanupReturn(1)

NextRace ==
  \/ RaceCreate
  \/ RacePublish
  \/ RaceAge
  \/ RaceDelete
  \/ Tick
  \/ RaceCleanupStart
  \/ RaceCleanupCount
  \/ RaceCleanupCollect
  \/ RaceCleanupDelete
  \/ RaceCleanupReturn

SpecRace == Init /\ [][NextRace]_vars

\* C2: in every interleaving of publish with cleanup_old_drafts, no post whose
\* published flag is true when the delete takes effect is removed: a post that
\* was selected as a draft and published before the delete survives it.
C2_NoPublishedPostDeletedInRace ==
  [][\A w \in Workers : \A p \in cleanup[w].selection \cap DOMAIN posts :
       (DeleteStep(w) /\ posts[p].published) => p \in DOMAIN posts']_vars

\* C19: in every interleaving with post creation, ageing, publish and deletion,
\* the count a cleanup_old_drafts run returns equals the number of posts its
\* delete removed.
C19_CountEqualsRemoved ==
  [][\A w \in Workers :
       DeleteStep(w) =>
         cleanup'[w].result.deleted = Cardinality(DOMAIN posts \ DOMAIN posts')]_vars

\* ----------------------------------- notification against store and sink
\* one job, delivered up to MaxDeliveries times, while the API changes the store;
\* send_post_notification reads only the post's existence and title
NotifyCreate == \E t \in Titles : CreatePost(t, TRUE)
NotifyRetitle == \E p \in PostIds, t \in Titles : Retitle(p, t)
NotifyDelete == \E p \in PostIds : ApiDelete(p)
NotifyJobSubmit == \E id \in ArgIds, r \in RecipientLists : NotifySubmit(1, id, r)
NotifyJobLookup == NotifyLookup(1)
NotifyJobSend == NotifySend(1)
NotifyJobSendRaises == NotifySendRaises(1)
NotifyJobFinish == NotifyFinish(1)
NotifyJobRedeliver == NotifyRedeliver(1)

NextNotify ==
  \/ NotifyCreate
  \/ NotifyRetitle
  \/ NotifyDelete
  \/ NotifyJobSubmit
  \/ NotifyJobLookup
  \/ NotifyJobSend
  \/ NotifyJobSendRaises
  \/ NotifyJobFinish
  \/ NotifyJobRedeliver

SpecNotify == Init /\ [][NextNotify]_vars

\* the invocation of worker w is over, by a return or by an exception
NotifyOver(w) == notif[w].pc \in {"done", "raised"}

\* some send_mail call of worker w's job raised
SinkFailed(w) == \E n \in 1..Len(outbox) : outbox[n].by = w /\ ~outbox[n].ok

\* the messages of worker w's job that the sink accepted, over all deliveries
Accepted(w) == SelectSeq(outbox, LAMBDA m : m.by = w /\ m.ok)

\* C4: in an invocation on an existing post a transport error for one recipient
\* does not stop the loop: when the invocation is over, a send was attempted for
\* every address of the list.
C4_EveryRecipientAttempted ==
  \A w \in Workers :
    (NotifyOver(w) /\ notif[w].post # NoPost) =>
       Len(CallsOf(w, notif[w].delivery)) = Len(notif[w].recipients)

\* C5: no invocation of the three jobs ends by raising to its caller; each one
\* that is over holds a structured result.
C5_JobsAlwaysReturnResult ==
  \A w \in Workers :
    /\ notif[w].pc # "raised"
    /\ notif[w].pc = "done" => notif[w].result # NoResult
    /\ stats[w].pc = "done" => stats[w].result # NoResult
    /\ cleanup[w].pc = "done" => cleanup[w].result # NoResult

\* C6: a lookup of a post id that is not in the store ends the invocation at once
\* with sent = 0 and the error "post not found", and the invocation makes no
\* mail sink call, whatever the recipient list.
C6_MissingPostNoMail ==
  /\ [][\A w \in Workers :
          (notif[w].pc = "lookup" /\ notif'[w] # notif[w]
             /\ notif[w].post_id \notin DOMAIN posts) =>
            /\ notif'[w].pc = "done"
            /\ notif'[w].result = [sent |-> 0, error |-> "post not found"]
            /\ outbox' = outbox]_vars
  /\ [](\A w \in Workers :
          (notif[w].pc = "done" /\ "error" \in DOMAIN notif[w].result) =>
             CallsOf(w, notif[w].delivery) = <<>>)

\* a job with a non-empty list on an absent post has returned the error
C6_Witness ==
  /\ notif[1].pc = "done"
  /\ notif[1].post_id \notin DOMAIN posts
  /\ notif[1].recipients # <<>>
  /\ notif[1].result = [sent |-> 0, error |-> "post not found"]
  /\ CallsOf(1, notif[1].delivery) = <<>>

\* C7: for an existing post and a non-empty list the invocation ends with a
\* result that carries the post id, as many attempts as the list is long and a
\* succeeded count of at most that; without a failing call succeeded = length.
C7_AttemptedEqualsLength ==
  \A w \in Workers :
    (NotifyOver(w) /\ notif[w].post # NoPost /\ notif[w].recipients # <<>>) =>
       LET attempted == Len(CallsOf(w, notif[w].delivery))
       IN /\ "post_id" \in DOMAIN notif[w].result
          /\ notif[w].result.post_id = notif[w].post_id
          /\ attempted = Len(notif[w].recipients)
          /\ notif[w].result.sent <= attempted
          /\ (\A n \in 1..attempted : CallsOf(w, notif[w].delivery)[n].ok) =>
                notif[w].result.sent = Len(notif[w].recipients)

\* C8: an invocation on an existing post makes exactly one mail sink call per
\* element of the list, in list order, each to that single recipient with a
\* subject containing the post title; an empty list makes none and returns 0.
C8_OneCallPerRecipientInOrder ==
  \A w \in Workers :
    (NotifyOver(w) /\ notif[w].post # NoPost) =>
       LET calls == CallsOf(w, notif[w].delivery)
       IN /\ Len(calls) = Len(notif[w].recipients)
          /\ \A n \in 1..Len(calls) :
                /\ calls[n].recipient_list = <<notif[w].recipients[n]>>
                /\ \E j \in DOMAIN calls[n].subject :
                      calls[n].subject[j] = notif[w].post.title
          /\ notif[w].recipients = <<>> =>
                (calls = <<>> /\ notif[w].result.sent = 0)

\* every delivery of worker w's job so far found the post and no call failed
CleanDeliveries(w) ==
  /\ notif[w].pc = "done"
  /\ notif[w].found = notif[w].delivery
  /\ ~SinkFailed(w)

\* each delivery made one call per list position, in list order
OneCallPerPosition(w) ==
  \A k \in 1..notif[w].delivery :
    /\ Len(CallsOf(w, k)) = Len(notif[w].recipients)
    /\ \A n \in 1..Len(notif[w].recipients) :
          CallsOf(w, k)[n].recipient_list = <<notif[w].recipients[n]>>

\* no delivery sent twice to one address
OneCallPerAddress(w) ==
  \A k \in 1..notif[w].delivery : \A e \in Emails :
    Cardinality({n \in 1..Len(CallsOf(w, k)) :
                   CallsOf(w, k)[n].recipient_list = <<e>>}) <= 1

ChangedSinceRead(w) ==
  /\ notif[w].post # NoPost
  /\ \/ notif[w].post_id \notin DOMAIN posts
     \/ posts[notif[w].post_id] # notif[w].post

\* C22: send_post_notification reads the post once, before the first send: when
\* the post is deleted or retitled after that read, the invocation still makes
\* one call per recipient with the title it read and returns sent = len(list)
\* with its post id and no error; the error result arises only in a lookup that
\* does not find the post.
C22_ReadOnceThenSendAll ==
  /\ [](\A w \in Workers :
          (NotifyOver(w) /\ ChangedSinceRead(w)) =>
             LET calls == CallsOf(w, notif[w].delivery)
             IN /\ notif[w].pc = "done"
                /\ notif[w].result = SentResult(Len(notif[w].recipients), notif[w].post_id)
                /\ Len(calls) = Len(notif[w].recipients)
                /\ \A n \in 1..Len(calls) :
                      /\ calls[n].ok
                      /\ calls[n].recipient_list = <<notif[w].recipients[n]>>
                      /\ calls[n].subject = Subject(notif[w].post.title))
  /\ [][\A w \in Workers :
          (notif'[w].result = NotFoundResult /\ notif[w].result # NotFoundResult) =>
             (notif[w].pc = "lookup" /\ notif[w].post_id \notin DOMAIN posts)]_vars

\* ------------------------------------- a failed delivery and its re-delivery
\* delivery k of worker w's job ended in a send_mail call that raised
FailedAt(w, k) == CallsOf(w, k) # <<>> /\ ~CallsOf(w, k)[Len(CallsOf(w, k))].ok

\* the messages the sink accepted for the address at position n of w's list
Received(w, n) ==
  {m \in 1..Len(outbox) :
     outbox[m].ok /\ outbox[m].recipient_list = <<notif[w].recipients[n]>>}

\* when the call for recipient i (0-based) raised, the calls of that delivery
\* are i accepted messages to recipients 0..i-1 and the refused one, and the
\* invocation holds no result
SentBeforeFailure(w, k) ==
  LET c == CallsOf(w, k)
  IN /\ Len(c) <= Len(notif[w].recipients)
     /\ \A n \in 1..Len(c) :
           /\ c[n].recipient_list = <<notif[w].recipients[n]>>
           /\ c[n].ok = (n < Len(c))
     /\ k = notif[w].delivery => (notif[w].pc = "raised" /\ notif[w].result = NoResult)

\* the sink never loses a message
SinkOnlyGrows ==
  [][/\ Len(outbox') >= Len(outbox)
     /\ SubSeq(outbox', 1, Len(outbox)) = outbox]_vars

\* C20 as stated: after a delivery whose call for recipient i raised, a later
\* delivery that is over has sent to recipients 0..i-1 again, so each of them
\* has received the message at least twice.
C20_RedeliveryAlwaysDoubles ==
  /\ [](\A k \in 1..notif[1].delivery :
          FailedAt(1, k) =>
            /\ SentBeforeFailure(1, k)
            /\ (k < notif[1].delivery /\ NotifyOver(1)) =>
                 \A n \in 1..(Len(CallsOf(1, k)) - 1) : Cardinality(Received(1, n)) >= 2)
  /\ SinkOnlyGrows

\* C20: when the call for recipient i (0-based) raises, exactly the messages
\* for recipients 0..i-1 have been sent and stay sent and no result is
\* returned; every re-delivery starts again at recipient 0 instead of resuming
\* at i, so once a re-delivery has found the post and gone through the whole
\* list, recipients 0..i-1 have received the message at least twice.
C20_RedeliveryRestartsAtFirst ==
  /\ [](\A k \in 1..notif[1].delivery :
          FailedAt(1, k) =>
            /\ SentBeforeFailure(1, k)
            /\ \A j \in (k + 1)..notif[1].delivery :
                 \A n \in 1..Len(CallsOf(1, j)) :
                    CallsOf(1, j)[n].recipient_list = <<notif[1].recipients[n]>>
            /\ (/\ k < notif[1].delivery
                /\ notif[1].pc = "done"
                /\ notif[1].result = SentResult(Len(notif[1].recipients), notif[1].post_id)) =>
                 \A n \in 1..(Len(CallsOf(1, k)) - 1) : Cardinality(Received(1, n)) >= 2)
  /\ SinkOnlyGrows

\* the first delivery failed at its second recipient, the second delivery went
\* through the list: the first recipient has the message twice
C20_Witness ==
  /\ notif[1].delivery = 2
  /\ notif[1].pc = "done"
  /\ FailedAt(1, 1)
  /\ Len(CallsOf(1, 1)) = 2
  /\ notif[1].recipients[1] # notif[1].recipients[2]
  /\ Cardinality(Received(1, 1)) = 2

\* --------------------------------------------- stats against the store
StatsCreate == \E t \in Titles : CreatePost(t, TRUE)
StatsRetitle == \E p \in PostIds, t \in Titles : Retitle(p, t)
StatsDelete == \E p \in PostIds : ApiDelete(p)
StatsComment == \E p \in PostIds : AddComment(p)
StatsJobSubmit == \E id \in ArgIds : StatsSubmit(1, id)
StatsJobLookup == StatsLookup(1)
StatsJobCount == StatsCount(1)
StatsJobReturn == StatsReturn(1)

NextStats ==
  \/ StatsCreate
  \/ StatsRetitle
  \/ StatsDelete
  \/ StatsComment
  \/ StatsJobSubmit
  \/ StatsJobLookup
  \/ StatsJobCount
  \/ StatsJobReturn

SpecStats == Init /\ [][NextStats]_vars

\* C10: a lookup of a post id that is not in the store ends generate_post_stats
\* with a result that holds the error "post not found" and nothing else (no
\* comment_count, post_id or title), and leaves posts, comments and mail alone.
C10_StatsMissingPost ==
  [][\A w \in Workers :
       (stats[w].pc = "lookup" /\ stats'[w] # stats[w]
          /\ stats[w].post_id \notin DOMAIN posts) =>
         /\ stats'[w].pc = "done"
         /\ DOMAIN stats'[w].result = {"error"}
         /\ stats'[w].result.error = "post not found"
         /\ UNCHANGED <<posts, comments, outbox>>]_vars

\* generate_post_stats has returned the error for an id the store does not hold
C10_Witness ==
  /\ stats[1].pc = "done"
  /\ stats[1].post_id \notin DOMAIN posts
  /\ stats[1].result = [error |-> "post not found"]

\* ------------------- stats run to completion, the store changes in between
StatsQuiet == \A w \in Workers : stats[w].pc = "idle"
SeqStatsCreate == \E t \in Titles : StatsQuiet /\ CreatePost(t, TRUE)
SeqStatsRetitle == \E p \in PostIds, t \in Titles : StatsQuiet /\ Retitle(p, t)
SeqStatsDelete == \E p \in PostIds : StatsQuiet /\ ApiDelete(p)
SeqStatsComment == \E p \in PostIds : StatsQuiet /\ AddComment(p)
SeqStatsSubmit == \E id \in ArgIds : StatsSubmit(1, id)
SeqStatsLookup == StatsLookup(1)
SeqStatsCount == StatsCount(1)
SeqStatsRedeliver == StatsRedeliver(1)
SeqStatsReturn == StatsReturn(1)

NextStatsSeq ==
  \/ SeqStatsCreate
  \/ SeqStatsRetitle
  \/ SeqStatsDelete
  \/ SeqStatsComment
  \/ SeqStatsSubmit
  \/ SeqStatsLookup
  \/ SeqStatsCount
  \/ SeqStatsRedeliver
  \/ SeqStatsReturn

SpecStatsSeq == Init /\ [][NextStatsSeq]_vars

\* C11: for an existing post generate_post_stats returns its argument as post_id,
\* the post's title and the number of comments owned by that post (comments of
\* other posts are not counted; none gives 0).
C11_StatsOfExistingPost ==
  \A w \in Workers :
    (stats[w].pc = "done" /\ stats[w].post_id \in DOMAIN posts) =>
       /\ DOMAIN stats[w].result = {"post_id", "title", "comment_count"}
       /\ stats[w].result.post_id = stats[w].post_id
       /\ stats[w].result.title = posts[stats[w].post_id].title
       /\ stats[w].result.comment_count =
            Cardinality({c \in DOMAIN comments : comments[c] = stats[w].post_id})

\* stats of a post with one comment while another post has a comment too
C11_Witness ==
  /\ stats[1].pc = "done"
  /\ stats[1].post_id \in DOMAIN posts
  /\ stats[1].result.comment_count = 1
  /\ \E c \in DOMAIN comments : comments[c] # stats[1].post_id

\* C12: a retry of generate_post_stats for the same post id, with no change to
\* the post or its comments in between, returns the result of the previous run.
C12_StatsIdempotent ==
  \A w \in Workers :
    (stats[w].pc = "done" /\ stats[w].prev # NoResult) =>
       stats[w].result = stats[w].prev

\* a retry on an existing post with a comment has returned
C12_Witness ==
  /\ stats[1].pc = "done"
  /\ stats[1].prev # NoResult
  /\ "comment_count" \in DOMAIN stats[1].result
  /\ stats[1].result.comment_count > 0

\* C13: a run of cleanup_old_drafts that directly follows a finished run, with
\* no post created or modified in between and the same clock, deletes nothing
\* and returns deleted = 0.
C13_CleanupIdempotent ==
  [][\A w \in Workers :
       (DeleteStep(w) /\ cleanup[w].rerun) =>
          /\ posts' = posts
          /\ comments' = comments
          /\ cleanup'[w].result = [deleted |-> 0]]_vars

\* a second run has returned after the first one had removed a draft
C13_Witness ==
  /\ cleanup[1].pc = "done"
  /\ cleanup[1].rerun
  /\ cleanup[1].result = [deleted |-> 0]
  /\ nextId > 1
  /\ posts = <<>>

\* ------------- the three jobs, one at a time, racing with a changing store
\* no job occupies its worker: the dispatcher can start the next one
NoJobRunning ==
  /\ \A w \in Workers : notif[w].pc \in {"idle", "done", "raised"}
  /\ \A w \in Workers : stats[w].pc = "idle"
  /\ \A w \in Workers : cleanup[w].pc = "idle"

\* recipient lists over one address: what a job writes does not depend on them
OneAddressLists == {r \in RecipientLists : \A k \in DOMAIN r : r[k] = "a@x.com"}

JobsCreate == \E pub \in BOOLEAN : CreatePost("Hello", pub)
JobsAge == \E p \in PostIds : AgePost(p, 31)
\* comments are written on the first post only: which post owns them is symmetric
JobsComment == AddComment(1)
JobsNotifySubmit ==
  \E id \in ArgIds, r \in OneAddressLists : NoJobRunning /\ NotifySubmit(1, id, r)
JobsNotifyLookup == NotifyLookup(1)
JobsNotifySend == NotifySend(1)
JobsNotifySendRaises == NotifySendRaises(1)
JobsNotifyFinish == NotifyFinish(1)
JobsStatsSubmit == \E id \in ArgIds : NoJobRunning /\ StatsSubmit(1, id)
JobsStatsLookup == StatsLookup(1)
JobsStatsCount == StatsCount(1)
JobsStatsReturn == StatsReturn(1)
JobsCleanupStart == NoJobRunning /\ CleanupStart(1)
JobsCleanupCount == CleanupCount(1)
JobsCleanupCollect == CleanupCollect(1)
JobsCleanupDelete == CleanupDelete(1)
JobsCleanupReturn == CleanupReturn(1)

NextJobs ==
  \/ JobsCreate
  \/ JobsAge
  \/ JobsComment
  \/ JobsNotifySubmit
  \/ JobsNotifyLookup
  \/ JobsNotifySend
  \/ JobsNotifySendRaises
  \/ JobsNotifyFinish
  \/ JobsStatsSubmit
  \/ JobsStatsLookup
  \/ JobsStatsCount
  \/ JobsStatsReturn
  \/ JobsCleanupStart
  \/ JobsCleanupCount
  \/ JobsCleanupCollect
  \/ JobsCleanupDelete
  \/ JobsCleanupReturn

SpecJobs == Init /\ [][NextJobs]_vars

\* C14: no step of send_post_notification or generate_post_stats changes the
\* posts or the comments; a step of cleanup_old_drafts changes no field of a
\* post it leaves in the store, and removes comments only with their post.
C14_OnlyCleanupWrites ==
  [][\A w \in Workers :
       /\ (notif'[w] # notif[w] \/ stats'[w] # stats[w]) =>
             (posts' = posts /\ comments' = comments)
       /\ (cleanup'[w] # cleanup[w]) =>
             /\ \A p \in DOMAIN posts' : p \in DOMAIN posts /\ posts'[p] = posts[p]
             /\ \A c \in DOMAIN comments :
                   IF comments[c] \in DOMAIN posts'
                   THEN c \in DOMAIN comments' /\ comments'[c] = comments[c]
                   ELSE c \notin DOMAIN comments'
             /\ DOMAIN comments' \subseteq DOMAIN comments]_vars

\* mail was sent, then cleanup_old_drafts removed a draft with its comment and
\* left another post in the store
C14_Witness ==
  /\ notif[1].pc = "done" /\ notif[1].sent > 0
  /\ cleanup[1].pc = "done" /\ cleanup[1].result.deleted > 0
  /\ comments = <<>>
  /\ DOMAIN posts # {}
  /\ Cardinality(DOMAIN posts) < nextId - 1

\* where the dispatcher sees the invocation of a worker whose job is at pc with
\* the given result: an invocation ended by an exception is a failure that a
\* retry can cure
Lifecycle(pc, result) ==
  CASE pc = "idle" -> "none"
    [] pc = "raised" -> "failed-transient"
    [] pc = "done" /\ "error" \in DOMAIN result -> "failed-permanent"
    [] pc = "done" -> "succeeded"
    [] OTHER -> "running"

\* C15: every invocation of the three jobs ends in succeeded or, for a missing
\* post, in failed-permanent; none is ever in failed-transient.
C15_NoTransientFailure ==
  \A w \in Workers :
    /\ Lifecycle(notif[w].pc, notif[w].result) # "failed-transient"
    /\ Lifecycle(stats[w].pc, stats[w].result) # "failed-transient"
    /\ Lifecycle(cleanup[w].pc, cleanup[w].result) # "failed-transient"
    /\ Lifecycle(notif[w].pc, notif[w].result) = "failed-permanent" =>
          notif[w].post = NoPost
    /\ Lifecycle(stats[w].pc, stats[w].result) = "failed-permanent" =>
          stats[w].post = NoPost

\* ------------------- two notification jobs in parallel on different posts
ParWorkers == {1, 2}
\* one post per job, created before either job is submitted
ParCreate ==
  \E t \in Titles :
    /\ nextId <= 2
    /\ \A w \in Workers : notif[w].pc = "idle"
    /\ CreatePost(t, TRUE)
ParSubmit ==
  \E w \in ParWorkers, id \in PostIds, r \in RecipientLists :
    /\ PostExists(id)
    /\ \A v \in ParWorkers \ {w} : notif[v].post_id # id
    /\ NotifySubmit(w, id, r)
ParLookup == \E w \in ParWorkers : NotifyLookup(w)
ParSend == \E w \in ParWorkers : NotifySend(w)
ParSendRaises == \E w \in ParWorkers : NotifySendRaises(w)
ParFinish == \E w \in ParWorkers : NotifyFinish(w)

NextPar ==
  \/ ParCreate
  \/ ParSubmit
  \/ ParLookup
  \/ ParSend
  \/ ParSendRaises
  \/ ParFinish

SpecPar == Init /\ [][NextPar]_vars

\* what the invocation of worker w does when it runs alone: one call per list
\* position, in order, with the title of its own post, up to the first call
\* the sink refuses; sent = len(list) and its own post id when none is refused
AsWhenAlone(w) ==
  LET calls == CallsOf(w, notif[w].delivery)
      own == posts[notif[w].post_id]
  IN /\ Len(calls) <= Len(notif[w].recipients)
     /\ \A n \in 1..Len(calls) :
           /\ calls[n].recipient_list = <<notif[w].recipients[n]>>
           /\ calls[n].subject = <<"New post: ", own.title>>
           /\ calls[n].ok = (n < Len(calls) \/ notif[w].pc = "done")
     /\ notif[w].pc = "done" =>
           /\ Len(calls) = Len(notif[w].recipients)
           /\ notif[w].result = [sent |-> Len(notif[w].recipients),
                                 post_id |-> notif[w].post_id]
     /\ notif[w].pc = "raised" => (calls # <<>> /\ notif[w].result = NoResult)

\* C16: in every interleaving of two send_post_notification invocations on
\* different posts each one ends as it does when run alone, and the mail sink
\* holds exactly the calls of the two, each with the title of its own post.
C16_ParallelAsAlone ==
  /\ \A w \in Workers : NotifyOver(w) => AsWhenAlone(w)
  /\ (\A w \in ParWorkers : NotifyOver(w)) =>
        Len(outbox) = Len(CallsOf(1, 1)) + Len(CallsOf(2, 1))

\* both jobs have returned, their sends were interleaved and carry two titles
C16_Witness ==
  /\ \A w \in ParWorkers : notif[w].pc = "done"
  /\ posts[notif[1].post_id].title # posts[notif[2].post_id].title
  /\ Len(outbox) >= 3
  /\ outbox[1].by = 1 /\ outbox[2].by = 2 /\ outbox[3].by = 1

\* ------------------------------------------------------------ REST API
\* the three ModelViewSets and the actions a ModelViewSet routes
Resources == {"posts", "comments", "tags"}
SafeActions == {"list", "retrieve"}
WriteActions == {"create", "update", "destroy"}

\* a variant with permission_classes = [AllowAny]
Permitted_AllowAny(action, auth) == TRUE

\* permission_classes = [IsAuthenticatedOrReadOnly]
Permitted(action, auth) == action \in SafeActions \/ auth

\* queryset = <Model>.objects.all()
Table(res) ==
  CASE res = "posts" -> posts
    [] res = "comments" -> comments
    [] res = "tags" -> tags

\* ids a request names: the first row of a table and an id no table ever holds
RowIds == {1, MaxPosts + 1}

\* the valid request bodies of a resource: a post, a comment on a stored post,
\* a tag
Bodies(res) ==
  CASE res = "posts" -> [title : {"Hello"}, published : BOOLEAN, created_at : {now}]
    [] res = "comments" -> DOMAIN posts \cap RowIds
    [] res = "tags" -> TagNames

\* the table has room for one more row (model bound)
HasRoom(res) ==
  CASE res = "posts" -> nextId <= MaxPosts
    [] res = "comments" -> Cardinality(DOMAIN comments) < MaxComments
    [] res = "tags" -> Cardinality(DOMAIN tags) < MaxTags

FreeId(table, max) == CHOOSE k \in 1..max : k \notin DOMAIN table

Answer(status, res, action, auth, id) ==
  [status |-> status, resource |-> res, action |-> action, auth |-> auth, id |-> id]

\* GET /api/<res>/
ApiList(res, auth) ==
  /\ response' = Answer(IF Permitted("list", auth) THEN 200 ELSE 403, res, "list", auth, 0)
  /\ UNCHANGED <<posts, nextId, comments, now, outbox, cleanup, notif, stats, tags, history>>

\* GET /api/<res>/<id>/
ApiRetrieve(res, auth, id) ==
  /\ response' = Answer(IF ~Permitted("retrieve", auth) THEN 403
                        ELSE IF id \in DOMAIN Table(res) THEN 200 ELSE 404,
                        res, "retrieve", auth, id)
  /\ UNCHANGED <<posts, nextId, comments, now, outbox, cleanup, notif, stats, tags, history>>

\* POST /api/<res>/ with a valid body
ApiCreate(res, auth, body) ==
  IF Permitted("create", auth)
  THEN /\ HasRoom(res)
       /\ posts' = IF res = "posts" THEN posts @@ (nextId :> body) ELSE posts
       /\ nextId' = IF res = "posts" THEN nextId + 1 ELSE nextId
       /\ comments' = IF res = "comments"
                      THEN comments @@ (FreeId(comments, MaxComments) :> body)
                      ELSE comments
       /\ tags' = IF res = "tags" THEN tags @@ (FreeId(tags, MaxTags) :> body) ELSE tags
       /\ response' = Answer(201, res, "create", auth, 0)
       /\ UNCHANGED <<now, outbox, cleanup, notif, stats, history>>
  ELSE /\ response' = Answer(403, res, "create", auth, 0)
       /\ UNCHANGED <<posts, nextId, comments, now, outbox, cleanup, notif, stats, tags, history>>

\* PUT /api/<res>/<id>/ with a valid body; created_at is not writable
ApiUpdate(res, auth, id, body) ==
  IF ~Permitted("update", auth)
  THEN /\ response' = Answer(403, res, "update", auth, id)
       /\ UNCHANGED <<posts, nextId, comments, now, outbox, cleanup, notif, stats, tags, history>>
  ELSE IF id \notin DOMAIN Table(res)
  THEN /\ response' = Answer(404, res, "update", auth, id)
       /\ UNCHANGED <<posts, nextId, comments, now, outbox, cleanup, notif, stats, tags, history>>
  ELSE /\ posts' = IF res = "posts"
                   THEN [posts EXCEPT ![id].title = body.title,
                                      ![id].published = body.published]
                   ELSE posts
       /\ comments' = IF res = "comments" THEN [comments EXCEPT ![id] = body] ELSE comments
       /\ tags' = IF res = "tags" THEN [tags EXCEPT ![id] = body] ELSE tags
       /\ response' = Answer(200, res, "update", auth, id)
       /\ UNCHANGED <<nextId, now, outbox, cleanup, notif, stats, history>>

\* DELETE /api/<res>/<id>/
ApiDestroy(res, auth, id) ==
  IF ~Permitted("destroy", auth)
  THEN /\ response' = Answer(403, res, "destroy", auth, id)
       /\ UNCHANGED <<posts, nextId, comments, now, outbox, cleanup, notif, stats, tags, history>>
  ELSE IF id \notin DOMAIN Table(res)
  THEN /\ response' = Answer(404, res, "destroy", auth, id)
       /\ UNCHANGED <<posts, nextId, comments, now, outbox, cleanup, notif, stats, tags, history>>
  ELSE /\ posts' = IF res = "posts" THEN Restrict(posts, DOMAIN posts \ {id}) ELSE posts
       /\ comments' = IF res = "posts" THEN CascadeComments(DOMAIN posts \ {id})
                      ELSE IF res = "comments" THEN Restrict(comments, DOMAIN comments \ {id})
                      ELSE comments
       /\ tags' = IF res = "tags" THEN Restrict(tags, DOMAIN tags \ {id}) ELSE tags
       /\ response' = Answer(204, res, "destroy", auth, id)
       /\ UNCHANGED <<nextId, now, outbox, cleanup, notif, stats, history>>

RequestList == \E res \in Resources, auth \in BOOLEAN : ApiList(res, auth)
RequestRetrieve == \E res \in Resources, auth \in BOOLEAN, id \in RowIds : ApiRetrieve(res, auth, id)
RequestCreate ==
  \E res \in Resources, auth \in BOOLEAN : \E body \in Bodies(res) : ApiCreate(res, auth, body)
RequestUpdate ==
  \E res \in Resources, auth \in BOOLEAN, id \in RowIds :
    \E body \in Bodies(res) : ApiUpdate(res, auth, id, body)
RequestDestroy == \E res \in Resources, auth \in BOOLEAN, id \in RowIds : ApiDestroy(res, auth, id)

NextApi ==
  \/ RequestList
  \/ RequestRetrieve
  \/ RequestCreate
  \/ RequestUpdate
  \/ RequestDestroy

SpecApi == Init /\ [][NextApi]_vars

\* an unauthenticated create, update or delete is answered 403 and writes nothing
WritesNeedAuth ==
  (response'.action \in WriteActions /\ ~response'.auth) =>
     (response'.status = 403 /\ UNCHANGED <<posts, comments, tags, nextId>>)

\* C18 as stated: unauthenticated writes are rejected with 403 and change
\* nothing, and every list and retrieve request is answered 200.
C18_ReadsAlways200 ==
  [][/\ WritesNeedAuth
     /\ response'.action \in SafeActions => response'.status = 200]_vars

\* C18: unauthenticated writes are rejected with 403 and change nothing, even
\* for an id that is not stored; a list request is answered 200 and a retrieve
\* request 200 when the record is stored and 404 when it is not, with or
\* without authentication; reads write nothing.
C18_AuthToWriteAnyoneReads ==
  [][/\ WritesNeedAuth
     /\ response'.action = "list" => response'.status = 200
     /\ response'.action = "retrieve" =>
          response'.status = (IF response'.id \in DOMAIN Table(response'.resource)
                              THEN 200 ELSE 404)
     /\ response'.action \in SafeActions => UNCHANGED <<posts, comments, tags, nextId>>]_vars

\* an unauthenticated DELETE of a stored post was refused while comments and
\* tags exist
C18_Witness ==
  /\ response = Answer(403, "posts", "destroy", FALSE, 1)
  /\ 1 \in DOMAIN posts
  /\ comments # <<>>
  /\ tags # <<>>

\* ------------------------------------------------- creation timestamp, ids
\* C17 as stated: no store operation changes the created_at of a stored post.
C17_CreatedAtNeverChanges ==
  [][\A p \in DOMAIN posts \cap DOMAIN posts' :
       posts'[p].created_at = posts[p].created_at]_vars

\* C17: a post gets created_at = now and a fresh id when it is created; after
\* that publish, unpublish and the cleanup job leave created_at alone, and it
\* changes only when a caller assigns created_at and saves the post; ids are
\* handed out in increasing order and never given to a second post.
C17_CreatedAtOnlyBackdated ==
  /\ [](\A p \in DOMAIN posts : p < nextId)
  /\ [][/\ \A p \in DOMAIN posts \cap DOMAIN posts' :
            posts'[p].created_at # posts[p].created_at =>
              \E d \in AgeDays : AgePost(p, d)
        /\ \A p \in DOMAIN posts' \ DOMAIN posts :
            /\ p = nextId
            /\ nextId' = nextId + 1
            /\ posts'[p].created_at = now
        /\ nextId' >= nextId]_vars

\* one post was backdated by a save, another still carries its creation time
\* after the clock has moved on
C17_Witness ==
  /\ now > 0
  /\ \E p, q \in DOMAIN posts :
        /\ posts[p].created_at < 0
        /\ posts[q].published
        /\ posts[q].created_at = 0

\* ------------------------------------- retention and the history of a post
\* PostFactory(published=pub), with the flag's first value written to history
CreatePostLogged(t, pub) ==
  /\ nextId <= MaxPosts
  /\ posts' = posts @@ (nextId :> [title |-> t, published |-> pub, created_at |-> now])
  /\ nextId' = nextId + 1
  /\ history' = history @@ (nextId :> {pub})
  /\ UNCHANGED <<comments, now, outbox, cleanup, notif, stats, tags, response>>

\* PATCH /api/posts/<id>/ {'published': pub}, with the new value written to history
SetPublishedLogged(p, pub) ==
  /\ PostExists(p)
  /\ posts[p].published # pub
  /\ posts' = [posts EXCEPT ![p].published = pub]
  /\ history' = [history EXCEPT ![p] = @ \cup {pub}]
  /\ UNCHANGED <<nextId, comments, now, outbox, cleanup, notif, stats, tags, response>>

\* the store changes between cleanup runs only; nothing but cleanup removes posts
HistCreate == \E pub \in BOOLEAN : CleanupQuiet /\ CreatePostLogged("Hello", pub)
HistPatch == \E p \in PostIds, pub \in BOOLEAN : CleanupQuiet /\ SetPublishedLogged(p, pub)
HistAge == \E p \in PostIds, d \in AgeDays : CleanupQuiet /\ AgePost(p, d)
HistTick == CleanupQuiet /\ Tick
HistCleanupStart == CleanupStart(1)
HistCleanupCount == CleanupCount(1)
HistCleanupCollect == CleanupCollect(1)
HistCleanupDelete == CleanupDelete(1)
HistCleanupReturn == CleanupReturn(1)

NextHistory ==
  \/ HistCreate
  \/ HistPatch
  \/ HistAge
  \/ HistTick
  \/ HistCleanupStart
  \/ HistCleanupCount
  \/ HistCleanupCollect
  \/ HistCleanupDelete
  \/ HistCleanupReturn

SpecHistory == Init /\ [][NextHistory]_vars

\* the post has been published at some time and a draft at some time
WasBoth(p) == history[p] = {TRUE, FALSE}

\* C21: what the delete of a cleanup_old_drafts run removes is decided by the
\* published flag and created_at the posts have at the run, whatever values the
\* flag had before: a post that was once published, is a draft again and was
\* created more than 30 days ago is removed, and a post that is published when
\* the run begins is kept, also when it was a draft before.
C21_EligibilityIgnoresHistory ==
  [][DeleteStep(1) =>
       /\ cleanup[1].cutoff = now - RetentionDays
       /\ \A p \in DOMAIN posts :
            /\ (p \notin DOMAIN posts') <=>
                 (~posts[p].published /\ posts[p].created_at < now - 30)
            /\ (WasBoth(p) /\ ~posts[p].published /\ posts[p].created_at < now - 30) =>
                 p \notin DOMAIN posts'
            /\ posts[p].published => (p \in DOMAIN posts' /\ posts'[p] = posts[p])]_vars

\* a run has removed a post that had been published, and has kept an old post
\* that had been a draft and was published before the run
C21_Witness ==
  /\ cleanup[1].pc = "done"
  /\ \E p \in DOMAIN history \ DOMAIN posts : WasBoth(p)
  /\ \E q \in DOMAIN posts :
        WasBoth(q) /\ posts[q].published /\ posts[q].created_at < now - 30

====
